---------------------------- MODULE Spec2Model ----------------------------
(***************************************************************************)
(* Rat25S front end: the tokenizer of lexer.py and the recursive-descent   *)
(* syntax checker of parser.py.                                            *)
(*                                                                         *)
(* A source text is a sequence of one-character strings.  Indices are the  *)
(* 0-based indices of the Python code; At(src, i) reads src[i].  A lexeme  *)
(* is a sequence of characters as well.                                    *)
(*                                                                         *)
(* Two programs are modelled.  SpecLex is lexer.tokenize run on a text,    *)
(* one loop iteration per step.  SpecParse is parser.parse called any      *)
(* number of times in one process, one grammar procedure (or one expect)   *)
(* per step, with the Python call stack kept as the sequence `stack` of    *)
(* the calls still to be made.                                             *)
(***************************************************************************)
EXTENDS Integers, Sequences, FiniteSets, TLC

VARIABLES
    text,           \* tokenize: the argument `text`; parse: `src_text`
    i,              \* tokenize: the scan index `i`
    current_line,   \* tokenize: `current_line`
    tokens,         \* tokenize: the list `tokens`; parser: the global `tokens`
    pc,             \* control point of tokenize / of the parse run
    pos,            \* parser: the global cursor `pos`
    error_count,    \* parser: the global `error_count`
    trace,          \* parser: the lines written to OUTFILE
    stack           \* parser: the pending calls of the running procedures

vars == <<text, i, current_line, tokens, pc, pos, error_count, trace, stack>>

lexVars == <<text, i, current_line, tokens, pc>>
parseVars == <<pos, error_count, trace, stack>>

--------------------------------------------------------------------------
(* Bounds of the model *)

\* longest text of the exhaustive part of the tokenizer's inputs
MaxLen == 3

\* longest word sequence of the exhaustive part of the parser's inputs
MaxWords == 3

--------------------------------------------------------------------------
(* Characters *)

LowerLetters ==
    <<"a","b","c","d","e","f","g","h","i","j","k","l","m",
      "n","o","p","q","r","s","t","u","v","w","x","y","z">>

UpperLetters ==
    <<"A","B","C","D","E","F","G","H","I","J","K","L","M",
      "N","O","P","Q","R","S","T","U","V","W","X","Y","Z">>

Range(s) == {s[k] : k \in 1..Len(s)}

\* str.isalpha, str.isdigit, str.isalnum, str.isspace on one character
isalpha(ch) == ch \in Range(LowerLetters) \cup Range(UpperLetters)

isdigit(ch) == ch \in {"0","1","2","3","4","5","6","7","8","9"}

isalnum(ch) == isalpha(ch) \/ isdigit(ch)

isspace(ch) == ch \in {" ", "\n", "\t", "\r", "\f"}

\* str.lower on one character, and on a lexeme
LowerChar(ch) ==
    IF \E k \in 1..26 : UpperLetters[k] = ch
    THEN LowerLetters[CHOOSE k \in 1..26 : UpperLetters[k] = ch]
    ELSE ch

lower(lexeme) == [k \in 1..Len(lexeme) |-> LowerChar(lexeme[k])]

\* src[i], src[a:b], src.startswith(lit, i)
At(src, k) == src[k + 1]

Slice(src, a, b) == SubSeq(src, a + 1, b)

startswith(src, lit, k) ==
    /\ k + Len(lit) <= Len(src)
    /\ SubSeq(src, k + 1, k + Len(lit)) = lit

--------------------------------------------------------------------------
(* Token-set definitions *)

KEYWORDS ==
    { <<"i","n","t","e","g","e","r">>, <<"r","e","a","l">>,
      <<"b","o","o","l","e","a","n">>,
      <<"f","u","n","c","t","i","o","n">>, <<"i","f">>, <<"e","l","s","e">>,
      <<"e","n","d","i","f">>,
      <<"w","h","i","l","e">>, <<"e","n","d","w","h","i","l","e">>,
      <<"r","e","t","u","r","n">>,
      <<"s","c","a","n">>, <<"p","r","i","n","t">>, <<"t","r","u","e">>,
      <<"f","a","l","s","e">> }

\* the table before "=>" was added to it
MULTI_CHAR_OPERATORS_Original ==
    { <<"<","=">>, <<">","=">>, <<"=","=">>, <<"<",">">>, <<"!","=">> }

\* the table that also holds the one-character '<'
MULTI_CHAR_OPERATORS_WithPrefix ==
    { <<"<","=">>, <<">","=">>, <<"=","=">>, <<"<",">">>, <<"!","=">>, <<"=",">">>, <<"<">> }

MULTI_CHAR_OPERATORS ==
    { <<"<","=">>, <<">","=">>, <<"=","=">>, <<"<",">">>, <<"!","=">>, <<"=",">">> }

MULTI_CHAR_SEPARATORS == { <<"$","$">> }

SINGLE_CHAR_OPERATORS == {"=", "+", "-", "*", "/", "<", ">"}

SINGLE_CHAR_SEPARATORS == {"(", ")", "{", "}", ";", ",", "$"}

\* Token(kind, lexeme, line_number)
Token(kind, lexeme, line_number) ==
    [kind |-> kind, lexeme |-> lexeme, line_number |-> line_number]

\* Python's None where a Token is optional
NoToken == Token("None", <<>>, 0)

\* the message carried by the error token of an unterminated comment
UnterminatedComment ==
    <<"u","n","t","e","r","m","i","n","a","t","e","d"," ","c","o","m","m","e","n","t">>

\* the case-sensitive test
is_keyword_CaseSensitive(lexeme) == lexeme \in KEYWORDS

is_keyword(lexeme) == lower(lexeme) \in KEYWORDS

--------------------------------------------------------------------------
(* Comment-skipper *)

\* the inner while loop of skip_ws_and_comments, entered after the opener:
\* closed with the index after "*]", or not closed with the index at the end
RECURSIVE CommentBody(_, _)
CommentBody(src, k) ==
    IF k >= Len(src)
    THEN [closed |-> FALSE, idx |-> k]
    ELSE IF At(src, k) = "*" /\ k + 1 < Len(src) /\ At(src, k + 1) = "]"
         THEN [closed |-> TRUE, idx |-> k + 2]
         ELSE CommentBody(src, k + 1)

\* the variant that resumes scanning right after the opener of an unterminated comment
RECURSIVE skip_ws_and_comments_Resume(_, _)
skip_ws_and_comments_Resume(src, k) ==
    IF k >= Len(src)
    THEN [idx |-> k, tok |-> NoToken]
    ELSE IF isspace(At(src, k))
         THEN skip_ws_and_comments_Resume(src, k + 1)
         ELSE IF At(src, k) = "[" /\ k + 1 < Len(src) /\ At(src, k + 1) = "*"
              THEN LET c == CommentBody(src, k + 2)
                   IN  IF c.closed
                       THEN skip_ws_and_comments_Resume(src, c.idx)
                       ELSE [idx |-> k + 2, tok |-> Token("unknown", UnterminatedComment, 1)]
              ELSE [idx |-> k, tok |-> NoToken]

\* the variant in which the '*' of the opener can close the comment
RECURSIVE skip_ws_and_comments_OpenerCloses(_, _)
skip_ws_and_comments_OpenerCloses(src, k) ==
    IF k >= Len(src)
    THEN [idx |-> k, tok |-> NoToken]
    ELSE IF isspace(At(src, k))
         THEN skip_ws_and_comments_OpenerCloses(src, k + 1)
         ELSE IF At(src, k) = "[" /\ k + 1 < Len(src) /\ At(src, k + 1) = "*"
              THEN LET c == CommentBody(src, k + 1)
                   IN  IF c.closed
                       THEN skip_ws_and_comments_OpenerCloses(src, c.idx)
                       ELSE [idx |-> c.idx, tok |-> Token("unknown", UnterminatedComment, 1)]
              ELSE [idx |-> k, tok |-> NoToken]

\* the variant that reports an unterminated comment without consuming it
RECURSIVE skip_ws_and_comments_Stay(_, _)
skip_ws_and_comments_Stay(src, k) ==
    IF k >= Len(src)
    THEN [idx |-> k, tok |-> NoToken]
    ELSE IF isspace(At(src, k))
         THEN skip_ws_and_comments_Stay(src, k + 1)
         ELSE IF At(src, k) = "[" /\ k + 1 < Len(src) /\ At(src, k + 1) = "*"
              THEN LET c == CommentBody(src, k + 2)
                   IN  IF c.closed
                       THEN skip_ws_and_comments_Stay(src, c.idx)
                       ELSE [idx |-> k, tok |-> Token("unknown", UnterminatedComment, 1)]
              ELSE [idx |-> k, tok |-> NoToken]

RECURSIVE skip_ws_and_comments(_, _)
skip_ws_and_comments(src, k) ==
    IF k >= Len(src)
    THEN [idx |-> k, tok |-> NoToken]
    ELSE IF isspace(At(src, k))
         THEN skip_ws_and_comments(src, k + 1)
         ELSE IF At(src, k) = "[" /\ k + 1 < Len(src) /\ At(src, k + 1) = "*"
              THEN LET c == CommentBody(src, k + 2)
                   IN  IF c.closed
                       THEN skip_ws_and_comments(src, c.idx)
                       ELSE [idx |-> c.idx, tok |-> Token("unknown", UnterminatedComment, 1)]
              ELSE [idx |-> k, tok |-> NoToken]

--------------------------------------------------------------------------
(* Main lexer *)

\* while idx < len(src) and (src[idx].isalnum() or src[idx] == '_'): idx += 1
RECURSIVE IdentEnd(_, _)
IdentEnd(src, k) ==
    IF k < Len(src) /\ (isalnum(At(src, k)) \/ At(src, k) = "_")
    THEN IdentEnd(src, k + 1)
    ELSE k

\* while idx < len(src) and src[idx].isdigit(): idx += 1
RECURSIVE DigitsEnd(_, _)
DigitsEnd(src, k) ==
    IF k < Len(src) /\ isdigit(At(src, k)) THEN DigitsEnd(src, k + 1) ELSE k

\* the literals of a table that src starts with at idx
TableMatches(table, src, k) == {lit \in table : startswith(src, lit, k)}

\* the condition that ends the unknown-token grouping loop at idx
UnknownStops(src, k) ==
    \/ isspace(At(src, k))
    \/ isalpha(At(src, k))
    \/ isdigit(At(src, k))
    \/ startswith(src, <<"[","*">>, k)
    \/ \E m \in MULTI_CHAR_OPERATORS \cup MULTI_CHAR_SEPARATORS : startswith(src, m, k)
    \/ At(src, k) \in SINGLE_CHAR_OPERATORS
    \/ At(src, k) \in SINGLE_CHAR_SEPARATORS

\* the grouping loop that takes one character only
UnknownEnd_OneCharacter(src, k) ==
    IF k < Len(src) THEN k + 1 ELSE k

RECURSIVE UnknownEnd(_, _)
UnknownEnd(src, k) ==
    IF k < Len(src) /\ ~UnknownStops(src, k) THEN UnknownEnd(src, k + 1) ELSE k

Max(a, b) == IF a >= b THEN a ELSE b

\* the number recogniser that takes a trailing '.' into the literal
NumberToken_TrailingDot(src, begin) ==
    LET d == DigitsEnd(src, begin + 1)
        is_real == d < Len(src) /\ At(src, d) = "."
        e == IF is_real THEN DigitsEnd(src, d + 1) ELSE d
    IN  [tok |-> Token(IF is_real THEN "real" ELSE "integer", Slice(src, begin, e), 1),
         idx |-> e]

\* the Integer / Real FSM of lex_token
NumberToken(src, begin) ==
    LET d == DigitsEnd(src, begin + 1)
        is_real == /\ d < Len(src)
                   /\ At(src, d) = "."
                   /\ d + 1 < Len(src)
                   /\ isdigit(At(src, d + 1))
        e == IF is_real THEN DigitsEnd(src, d + 1) ELSE d
    IN  [tok |-> Token(IF is_real THEN "real" ELSE "integer", Slice(src, begin, e), 1),
         idx |-> e]

\* the lexer that normalises the lexeme of a keyword to lower case
lex_token_LowerCase(src, start) ==
    LET sk == skip_ws_and_comments(src, start)
        idx == sk.idx
        ch == At(src, idx)
        ops == TableMatches(MULTI_CHAR_OPERATORS, src, idx)
        seps == TableMatches(MULTI_CHAR_SEPARATORS, src, idx)
    IN  IF sk.tok # NoToken THEN [tok |-> sk.tok, idx |-> idx]
        ELSE IF idx >= Len(src) THEN [tok |-> Token("eof", <<>>, 1), idx |-> idx]
        ELSE IF isalpha(ch)
             THEN LET e == IdentEnd(src, idx + 1)
                      lex == Slice(src, idx, e)
                  IN  [tok |-> IF is_keyword(lex) THEN Token("keyword", lower(lex), 1)
                                                  ELSE Token("identifier", lex, 1),
                       idx |-> e]
        ELSE IF isdigit(ch) THEN NumberToken(src, idx)
        ELSE IF ops # {}
             THEN LET lit == CHOOSE l \in ops : TRUE
                  IN  [tok |-> Token("operator", lit, 1), idx |-> idx + Len(lit)]
        ELSE IF seps # {}
             THEN LET lit == CHOOSE l \in seps : TRUE
                  IN  [tok |-> Token("separator", lit, 1), idx |-> idx + Len(lit)]
        ELSE IF ch \in SINGLE_CHAR_OPERATORS
             THEN [tok |-> Token("operator", <<ch>>, 1), idx |-> idx + 1]
        ELSE IF ch \in SINGLE_CHAR_SEPARATORS
             THEN [tok |-> Token("separator", <<ch>>, 1), idx |-> idx + 1]
        ELSE LET e == Max(UnknownEnd(src, idx), idx + 1)
             IN  [tok |-> Token("unknown", Slice(src, idx, e), 1), idx |-> e]

\* lex_token(src, start): the next token (line number not yet set) and the new index
lex_token(src, start) ==
    LET sk == skip_ws_and_comments(src, start)
        idx == sk.idx
        ch == At(src, idx)
        ops == TableMatches(MULTI_CHAR_OPERATORS, src, idx)
        seps == TableMatches(MULTI_CHAR_SEPARATORS, src, idx)
    IN  IF sk.tok # NoToken THEN [tok |-> sk.tok, idx |-> idx]
        ELSE IF idx >= Len(src) THEN [tok |-> Token("eof", <<>>, 1), idx |-> idx]
        ELSE IF isalpha(ch)
             THEN LET e == IdentEnd(src, idx + 1)
                      lex == Slice(src, idx, e)
                  IN  [tok |-> Token(IF is_keyword(lex) THEN "keyword" ELSE "identifier",
                                     lex, 1),
                       idx |-> e]
        ELSE IF isdigit(ch) THEN NumberToken(src, idx)
        ELSE IF ops # {}
             THEN LET lit == CHOOSE l \in ops : TRUE
                  IN  [tok |-> Token("operator", lit, 1), idx |-> idx + Len(lit)]
        ELSE IF seps # {}
             THEN LET lit == CHOOSE l \in seps : TRUE
                  IN  [tok |-> Token("separator", lit, 1), idx |-> idx + Len(lit)]
        ELSE IF ch \in SINGLE_CHAR_OPERATORS
             THEN [tok |-> Token("operator", <<ch>>, 1), idx |-> idx + 1]
        ELSE IF ch \in SINGLE_CHAR_SEPARATORS
             THEN [tok |-> Token("separator", <<ch>>, 1), idx |-> idx + 1]
        ELSE LET e == Max(UnknownEnd(src, idx), idx + 1)
             IN  [tok |-> Token("unknown", Slice(src, idx, e), 1), idx |-> e]

\* the results lex_token can return: MULTI_CHAR_OPERATORS and
\* MULTI_CHAR_SEPARATORS are sets, iterated in an order the language leaves
\* open, and the loop returns at the first literal that matches, which may be
\* any literal of the table that matches (the operators are tried first)
lex_token_results(src, start) ==
    LET sk == skip_ws_and_comments(src, start)
        idx == sk.idx
        ops == TableMatches(MULTI_CHAR_OPERATORS, src, idx)
        seps == TableMatches(MULTI_CHAR_SEPARATORS, src, idx)
    IN  IF sk.tok # NoToken \/ idx >= Len(src) THEN {lex_token(src, start)}
        ELSE IF isalpha(At(src, idx)) \/ isdigit(At(src, idx)) THEN {lex_token(src, start)}
        ELSE IF ops # {}
             THEN {[tok |-> Token("operator", lit, 1), idx |-> idx + Len(lit)] : lit \in ops}
        ELSE IF seps # {}
             THEN {[tok |-> Token("separator", lit, 1), idx |-> idx + Len(lit)] : lit \in seps}
        ELSE {lex_token(src, start)}

\* the number of '\n' among src[a], ..., src[b-1]
Newlines(src, a, b) ==
    Cardinality({j \in a..(b - 1) : j < Len(src) /\ At(src, j) = "\n"})

\* the state of tokenize's locals
LexState(k, line, toks, at) ==
    [i |-> k, current_line |-> line, tokens |-> toks, pc |-> at]

\* one iteration of the while loop of tokenize, entered with i < len(text),
\* in which the call of lex_token (if it is reached) returns r
TokenizeIterWith(src, st, r) ==
    LET line_num == st.current_line
        sk == skip_ws_and_comments(src, st.i)
        line1 == st.current_line + Newlines(src, st.i, sk.idx)
    IN  IF sk.tok # NoToken
        THEN LexState(sk.idx, line1,
                      Append(st.tokens, [sk.tok EXCEPT !.line_number = line_num]), "loop")
        ELSE IF sk.idx >= Len(src)
        THEN LexState(sk.idx, line1, st.tokens, "post")
        ELSE LexState(r.idx, line1 + Newlines(src, sk.idx, r.idx),
                      Append(st.tokens, [r.tok EXCEPT !.line_number = line_num]),
                      IF r.tok.kind = "eof" THEN "post" ELSE "loop")

\* one iteration of the while loop of tokenize, entered with i < len(text)
TokenizeIter(src, st) ==
    TokenizeIterWith(src, st, lex_token(src, skip_ws_and_comments(src, st.i).idx))

\* the return that appends eof only to an empty list
TokenizeReturn_OnlyIfEmpty(st) ==
    LexState(st.i, st.current_line,
             IF st.tokens = <<>>
             THEN Append(st.tokens, Token("eof", <<>>, st.current_line))
             ELSE st.tokens,
             "done")

\* the return that appends no eof token
TokenizeReturn_NoEof(st) ==
    LexState(st.i, st.current_line, st.tokens, "done")

\* after the loop: make sure the list ends with an eof token, and return
TokenizeReturn(st) ==
    LexState(st.i, st.current_line,
             IF st.tokens = <<>> \/ st.tokens[Len(st.tokens)].kind # "eof"
             THEN Append(st.tokens, Token("eof", <<>>, st.current_line))
             ELSE st.tokens,
             "done")

\* tokenize run to its return from the state st
RECURSIVE TokenizeFrom(_, _)
TokenizeFrom(src, st) ==
    IF st.pc = "done" THEN st
    ELSE IF st.pc = "post" THEN TokenizeFrom(src, TokenizeReturn(st))
    ELSE IF st.i < Len(src) THEN TokenizeFrom(src, TokenizeIter(src, st))
    ELSE TokenizeFrom(src, LexState(st.i, st.current_line, st.tokens, "post"))

\* tokenize(text): the token list (at most one literal of a table matches at
\* an index, so the list does not depend on the literal lex_token finds first)
tokenize(src) == TokenizeFrom(src, LexState(0, 1, <<>>, "loop")).tokens

--------------------------------------------------------------------------
(* lexer.tokenize as a program: SpecLex *)

\* the characters of the exhaustively enumerated texts
LexAlphabet == {" ", "\n", "a", "1", ".", "[", "*", "]", "$", "<", "=", ">", "!"}

\* longer texts of interest
ExampleTexts ==
    { <<"1",".","2",".","3">>, <<"1","2","3",".">>, <<"@","@","@">>,
      <<"[","*"," ","a","b","c">>,
      <<"a"," ","[","*"," ","c"," ","*","]","\n","b","\n","[","*","\n","x">>,
      <<"I","F">>, <<"I","f">>, <<"i","f">>, <<"i","f","x">>, <<"i","f","_","1">>,
      <<"E","n","d","W","h","i","l","e">>, <<"t","r","u","e","_">>,
      <<"S","c","a","n"," ","x","9">>,
      <<"[","*","*","]">>, <<"a","[","*","*","]","b">>, <<"[","*","[","*","*","]","*","]">>,
      <<"[","*"," ","[","*"," ","a"," ","*","]"," ","b">>,
      <<" "," ","[","*"," ","x"," ","*","]"," ","\n">>,
      <<"a","\n","\n","b","1"," ","<","=","\t","2",".","5">> }

LexTexts == UNION {[1..n -> LexAlphabet] : n \in 0..MaxLen} \cup ExampleTexts

InitLex ==
    /\ text \in LexTexts
    /\ i = 0
    /\ current_line = 1
    /\ tokens = <<>>
    /\ pc = "loop"
    /\ pos = 0
    /\ error_count = 0
    /\ trace = <<>>
    /\ stack = <<>>

SetLexState(st) ==
    /\ i' = st.i
    /\ current_line' = st.current_line
    /\ tokens' = st.tokens
    /\ pc' = st.pc

\* while i < len(text): one iteration
TokenizeLoopBody ==
    /\ pc = "loop"
    /\ i < Len(text)
    /\ \E r \in lex_token_results(text, skip_ws_and_comments(text, i).idx) :
          SetLexState(TokenizeIterWith(text, LexState(i, current_line, tokens, pc), r))
    /\ UNCHANGED <<text, parseVars>>

\* while i < len(text): the condition is false
TokenizeLoopExit ==
    /\ pc = "loop"
    /\ i >= Len(text)
    /\ pc' = "post"
    /\ UNCHANGED <<text, i, current_line, tokens, parseVars>>

\* the code after the loop, and the return
TokenizeEnd ==
    /\ pc = "post"
    /\ SetLexState(TokenizeReturn(LexState(i, current_line, tokens, pc)))
    /\ UNCHANGED <<text, parseVars>>

NextLex == TokenizeLoopBody \/ TokenizeLoopExit \/ TokenizeEnd

SpecLex == InitLex /\ [][NextLex]_vars

\* the interpreter runs tokenize to its return
FairSpecLex == SpecLex /\ WF_vars(NextLex)

--------------------------------------------------------------------------
(* Parser: cursor, diagnostics and trace *)

\* the value of the globals pos, error_count and of the trace file
ParserState(p, errs, tr) == [pos |-> p, error_count |-> errs, trace |-> tr]

PS == ParserState(pos, error_count, trace)

\* a line of OUTFILE: "header" (the two heading lines), "terminal" (advance),
\* "error" (error) or "prod" (prod); note is the rule or the message
TraceLine(type, kind, lexeme, line, note) ==
    [type |-> type, kind |-> kind, lexeme |-> lexeme, line |-> line, note |-> note]

\* `lexeme=None` of expect
NoLexeme == <<"None">>

\* current()
current(toks, p) ==
    IF p >= Len(toks)
    THEN Token("eof", <<>>, IF toks # <<>> THEN toks[Len(toks)].line_number ELSE 1)
    ELSE toks[p + 1]

\* the variant of advance() that logs an eof token as well
advance_LogsEof(toks, ps) ==
    LET tok == current(toks, ps.pos)
    IN  ParserState(ps.pos + 1,
                    ps.error_count,
                    Append(ps.trace,
                           TraceLine("terminal", tok.kind, tok.lexeme, tok.line_number, <<>>)))

\* advance(): log the current token unless it is eof, then pos += 1
advance(toks, ps) ==
    LET tok == current(toks, ps.pos)
    IN  ParserState(ps.pos + 1,
                    ps.error_count,
                    IF tok.kind # "eof"
                    THEN Append(ps.trace,
                                TraceLine("terminal", tok.kind, tok.lexeme, tok.line_number, <<>>))
                    ELSE ps.trace)

\* the variant of error() that leaves the offending token in place
error_NoSkip(toks, ps, msg) ==
    LET tok == current(toks, ps.pos)
    IN  ParserState(ps.pos,
                    ps.error_count + 1,
                    Append(ps.trace,
                           TraceLine("error", tok.kind, tok.lexeme, tok.line_number, msg)))

\* error(msg): write the diagnostic, count it, skip the offending token
error(toks, ps, msg) ==
    LET tok == current(toks, ps.pos)
    IN  advance(toks,
                ParserState(ps.pos,
                            ps.error_count + 1,
                            Append(ps.trace,
                                   TraceLine("error", tok.kind, tok.lexeme,
                                             tok.line_number, msg))))

\* the variant of expect() that lets an unknown token stand for any terminal
expect_UnknownMatches(toks, ps, kind, lexeme) ==
    LET tok == current(toks, ps.pos)
    IN  IF tok.kind # "unknown"
           /\ (tok.kind # kind \/ (lexeme # NoLexeme /\ tok.lexeme # lexeme))
        THEN error(toks, ps, <<"expected", kind, IF lexeme = NoLexeme THEN <<>> ELSE lexeme>>)
        ELSE advance(toks, ps)

\* expect(kind, lexeme)
expect(toks, ps, kind, lexeme) ==
    LET tok == current(toks, ps.pos)
    IN  IF tok.kind # kind \/ (lexeme # NoLexeme /\ tok.lexeme # lexeme)
        THEN error(toks, ps, <<"expected", kind, IF lexeme = NoLexeme THEN <<>> ELSE lexeme>>)
        ELSE advance(toks, ps)

\* prod(rule)
prod(toks, ps, rule) ==
    ParserState(ps.pos, ps.error_count,
                Append(ps.trace,
                       TraceLine("prod", "", <<>>, current(toks, ps.pos).line_number, <<rule>>)))

--------------------------------------------------------------------------
(* Lexemes the grammar names *)

L_dd == <<"$","$">>
L_function == <<"f","u","n","c","t","i","o","n">>
L_integer == <<"i","n","t","e","g","e","r">>
L_boolean == <<"b","o","o","l","e","a","n">>
L_real == <<"r","e","a","l">>
L_if == <<"i","f">>
L_else == <<"e","l","s","e">>
L_endif == <<"e","n","d","i","f">>
L_while == <<"w","h","i","l","e">>
L_endwhile == <<"e","n","d","w","h","i","l","e">>
L_return == <<"r","e","t","u","r","n">>
L_scan == <<"s","c","a","n">>
L_print == <<"p","r","i","n","t">>
L_true == <<"t","r","u","e">>
L_false == <<"f","a","l","s","e">>

Qualifiers == {L_integer, L_boolean, L_real}

RelopLexemes == { <<"=","=">>, <<"!","=">>, <<"<">>, <<">">>, <<"<","=">>, <<"=",">">> }

--------------------------------------------------------------------------
(* The call stack *)

\* a pending call of a grammar procedure (or of the rest of one), and a
\* pending expect(kind, lexeme)
Call(name) == [op |-> "call", name |-> name, kind |-> "", lexeme |-> <<>>]

Expect(kind, lexeme) == [op |-> "expect", name |-> "", kind |-> kind, lexeme |-> lexeme]

\* the procedure `name` is the next to run
AtCall(name) == pc = "parse" /\ stack # <<>> /\ Head(stack) = Call(name)

\* the current token
Cur == current(tokens, pos)

\* the step of a procedure body: the globals become ps, and the calls of
\* `push` are made, in order, before the caller goes on
Continue(ps, push) ==
    /\ pos' = ps.pos
    /\ error_count' = ps.error_count
    /\ trace' = ps.trace
    /\ stack' = push \o Tail(stack)
    /\ UNCHANGED lexVars

\* an uncaught exception ends the process
Raise ==
    /\ pc' = "exception"
    /\ UNCHANGED <<text, i, current_line, tokens, parseVars>>

\* a pending expect is made
ExpectCall ==
    /\ pc = "parse"
    /\ stack # <<>>
    /\ Head(stack).op = "expect"
    /\ Continue(expect(tokens, PS, Head(stack).kind, Head(stack).lexeme), <<>>)

--------------------------------------------------------------------------
(* Grammar procedures.  The rule strings write "epsilon" for the source's  *)
(* Greek letter.                                                           *)

\* R1: the first expect, made before the rule is traced
Rat25S ==
    /\ AtCall("Rat25S")
    /\ Continue(PS, <<Expect("separator", L_dd), Call("Rat25S_rest")>>)

\* R1 without the final expect("eof")
Rat25S_rest_NoEofCheck ==
    /\ AtCall("Rat25S_rest")
    /\ Continue(prod(tokens, PS, "<Rat25S> -> $$ <OptFunctionDefinitions> $$ <OptDeclarationList> $$ <StatementList> $$"),
                <<Call("OptFunctionDefinitions"), Expect("separator", L_dd),
                  Call("OptDeclarationList"), Expect("separator", L_dd),
                  Call("StatementList"), Expect("separator", L_dd)>>)

\* R1: the trace line and the rest of the right-hand side
Rat25S_rest ==
    /\ AtCall("Rat25S_rest")
    /\ Continue(prod(tokens, PS, "<Rat25S> -> $$ <OptFunctionDefinitions> $$ <OptDeclarationList> $$ <StatementList> $$"),
                <<Call("OptFunctionDefinitions"), Expect("separator", L_dd),
                  Call("OptDeclarationList"), Expect("separator", L_dd),
                  Call("StatementList"), Expect("separator", L_dd),
                  Expect("eof", NoLexeme)>>)

OptFunctionDefinitions ==
    /\ AtCall("OptFunctionDefinitions")
    /\ IF Cur.lexeme = L_function
       THEN Continue(prod(tokens, PS, "<OptFunctionDefinitions> -> <FunctionDefinitions>"),
                     <<Call("FunctionDefinitions")>>)
       ELSE Continue(prod(tokens, PS, "<OptFunctionDefinitions> -> epsilon"), <<>>)

FunctionDefinitions ==
    /\ AtCall("FunctionDefinitions")
    /\ Continue(prod(tokens, PS, "<FunctionDefinitions> -> <Function> <FunctionDefinitionsPrime>"),
                <<Call("Function"), Call("FunctionDefinitionsPrime")>>)

FunctionDefinitionsPrime ==
    /\ AtCall("FunctionDefinitionsPrime")
    /\ IF Cur.lexeme = L_function
       THEN Continue(prod(tokens, PS, "<FunctionDefinitionsPrime> -> <FunctionDefinitions>"),
                     <<Call("FunctionDefinitions")>>)
       ELSE Continue(prod(tokens, PS, "<FunctionDefinitionsPrime> -> epsilon"), <<>>)

Function ==
    /\ AtCall("Function")
    /\ Continue(prod(tokens, PS, "<Function> -> function IDENTIFIER ( <OptParameterList> ) <OptDeclarationList> <Body>"),
                <<Expect("keyword", L_function), Expect("identifier", NoLexeme),
                  Expect("separator", <<"(">>), Call("OptParameterList"),
                  Expect("separator", <<")">>), Call("OptDeclarationList"), Call("Body")>>)

OptParameterList ==
    /\ AtCall("OptParameterList")
    /\ IF Cur.kind = "identifier"
       THEN Continue(prod(tokens, PS, "<OptParameterList> -> <ParameterList>"),
                     <<Call("ParameterList")>>)
       ELSE Continue(prod(tokens, PS, "<OptParameterList> -> epsilon"), <<>>)

ParameterList ==
    /\ AtCall("ParameterList")
    /\ Continue(prod(tokens, PS, "<ParameterList> -> <Parameter> <ParameterListPrime>"),
                <<Call("Parameter"), Call("ParameterListPrime")>>)

ParameterListPrime ==
    /\ AtCall("ParameterListPrime")
    /\ IF Cur.lexeme = <<",">>
       THEN Continue(prod(tokens, PS, "<ParameterListPrime> -> , <Parameter> <ParameterListPrime>"),
                     <<Expect("separator", <<",">>), Call("Parameter"),
                       Call("ParameterListPrime_more")>>)
       ELSE Continue(prod(tokens, PS, "<ParameterListPrime> -> epsilon"), <<>>)

\* ParameterListPrime after its Parameter: if current().lexeme == ","
ParameterListPrime_more ==
    /\ AtCall("ParameterListPrime_more")
    /\ IF Cur.lexeme = <<",">>
       THEN Continue(PS, <<Call("ParameterListPrime")>>)
       ELSE Continue(PS, <<>>)

Parameter ==
    /\ AtCall("Parameter")
    /\ Continue(prod(tokens, PS, "<Parameter> -> <IDs> <Qualifier>"),
                <<Call("IDs"), Call("Qualifier")>>)

Qualifier ==
    /\ AtCall("Qualifier")
    /\ LET ps == prod(tokens, PS, "<Qualifier> -> integer | boolean | real")
       IN  IF Cur.lexeme \in Qualifiers
           THEN Continue(advance(tokens, ps), <<>>)
           ELSE Continue(error(tokens, ps, <<"qualifier (integer/boolean/real) expected">>), <<>>)

Body ==
    /\ AtCall("Body")
    /\ Continue(prod(tokens, PS, "<Body> -> { <StatementList> }"),
                <<Expect("separator", <<"{">>), Call("StatementList"),
                  Expect("separator", <<"}">>)>>)

OptDeclarationList ==
    /\ AtCall("OptDeclarationList")
    /\ IF Cur.lexeme \in Qualifiers
       THEN Continue(prod(tokens, PS, "<OptDeclarationList> -> <DeclarationList>"),
                     <<Call("DeclarationList")>>)
       ELSE Continue(prod(tokens, PS, "<OptDeclarationList> -> epsilon"), <<>>)

DeclarationList ==
    /\ AtCall("DeclarationList")
    /\ Continue(prod(tokens, PS, "<DeclarationList> -> <Declaration> ; <DeclarationListPrime>"),
                <<Call("Declaration"), Expect("separator", <<";">>),
                  Call("DeclarationListPrime")>>)

DeclarationListPrime ==
    /\ AtCall("DeclarationListPrime")
    /\ IF Cur.lexeme \in Qualifiers
       THEN Continue(prod(tokens, PS, "<DeclarationListPrime> -> <DeclarationList>"),
                     <<Call("DeclarationList")>>)
       ELSE Continue(prod(tokens, PS, "<DeclarationListPrime> -> epsilon"), <<>>)

Declaration ==
    /\ AtCall("Declaration")
    /\ Continue(prod(tokens, PS, "<Declaration> -> <Qualifier> <IDs>"),
                <<Call("Qualifier"), Call("IDs")>>)

IDs ==
    /\ AtCall("IDs")
    /\ Continue(prod(tokens, PS, "<IDs> -> IDENTIFIER <IDsPrime>"),
                <<Expect("identifier", NoLexeme), Call("IDsPrime")>>)

IDsPrime ==
    /\ AtCall("IDsPrime")
    /\ IF Cur.lexeme = <<",">>
       THEN Continue(prod(tokens, PS, "<IDsPrime> -> , IDENTIFIER <IDsPrime>"),
                     <<Expect("separator", <<",">>), Expect("identifier", NoLexeme),
                       Call("IDsPrime_more")>>)
       ELSE Continue(prod(tokens, PS, "<IDsPrime> -> epsilon"), <<>>)

\* IDsPrime after its identifier: if current().lexeme == ","
IDsPrime_more ==
    /\ AtCall("IDsPrime_more")
    /\ IF Cur.lexeme = <<",">>
       THEN Continue(PS, <<Call("IDsPrime")>>)
       ELSE Continue(PS, <<>>)

\* the token ends a statement list: '}' or '$$' as a separator, or eof
EndsStatementList(tok) ==
    \/ tok.kind = "separator" /\ tok.lexeme \in {<<"}">>, L_dd}
    \/ tok.kind = "eof"

\* the statement list that never takes the empty alternative
StatementList_NeverEmpty ==
    /\ AtCall("StatementList")
    /\ Continue(prod(tokens, PS, "<StatementList> -> <Statement> <StatementListPrime>"),
                <<Call("Statement"), Call("StatementListPrime")>>)

StatementList ==
    /\ AtCall("StatementList")
    /\ IF EndsStatementList(Cur)
       THEN Continue(prod(tokens, PS, "<StatementList> -> epsilon"), <<>>)
       ELSE Continue(prod(tokens, PS, "<StatementList> -> <Statement> <StatementListPrime>"),
                     <<Call("Statement"), Call("StatementListPrime")>>)

\* the keywords that start a statement
StarterKeywords == {L_if, L_while, L_return, L_scan, L_print}

StatementListPrime ==
    /\ AtCall("StatementListPrime")
    /\ IF EndsStatementList(Cur)
       THEN Continue(prod(tokens, PS, "<StatementListPrime> -> epsilon"), <<>>)
       ELSE IF \/ Cur.kind = "separator" /\ Cur.lexeme = <<"{">>
               \/ Cur.kind = "identifier"
               \/ Cur.kind = "keyword" /\ Cur.lexeme \in StarterKeywords
            THEN Continue(prod(tokens, PS, "<StatementListPrime> -> <Statement> <StatementListPrime>"),
                          <<Call("Statement"), Call("StatementListPrime")>>)
            ELSE Continue(PS, <<>>)

Statement ==
    /\ AtCall("Statement")
    /\ IF Cur.kind = "separator" /\ Cur.lexeme = <<"{">>
       THEN Continue(prod(tokens, PS, "<Statement> -> <Compound>"), <<Call("Compound")>>)
       ELSE IF Cur.kind = "identifier"
       THEN Continue(prod(tokens, PS, "<Statement> -> <Assign>"), <<Call("Assign")>>)
       ELSE IF Cur.kind = "keyword"
       THEN IF Cur.lexeme = L_if
            THEN Continue(prod(tokens, PS, "<Statement> -> <If>"), <<Call("If")>>)
            ELSE IF Cur.lexeme = L_while
            THEN Continue(prod(tokens, PS, "<Statement> -> <While>"), <<Call("While")>>)
            ELSE IF Cur.lexeme = L_return
            THEN Continue(prod(tokens, PS, "<Statement> -> <Return>"), <<Call("Return")>>)
            ELSE IF Cur.lexeme = L_print
            THEN Continue(prod(tokens, PS, "<Statement> -> <Print>"), <<Call("Print")>>)
            ELSE IF Cur.lexeme = L_scan
            THEN Continue(prod(tokens, PS, "<Statement> -> <Scan>"), <<Call("Scan")>>)
            ELSE Continue(error(tokens, PS, <<"unexpected keyword in statement">>), <<>>)
       ELSE Continue(error(tokens, PS, <<"invalid statement start">>), <<>>)

Compound ==
    /\ AtCall("Compound")
    /\ Continue(prod(tokens, PS, "<Compound> -> { <StatementList> }"),
                <<Expect("separator", <<"{">>), Call("StatementList"),
                  Expect("separator", <<"}">>)>>)

Assign ==
    /\ AtCall("Assign")
    /\ Continue(prod(tokens, PS, "<Assign> -> IDENTIFIER = <Expression> ;"),
                <<Expect("identifier", NoLexeme), Expect("operator", <<"=">>),
                  Call("Expression"), Expect("separator", <<";">>)>>)

If ==
    /\ AtCall("If")
    /\ Continue(prod(tokens, PS, "<If> -> if ( <Condition> ) <Statement> <IfPrime>"),
                <<Expect("keyword", L_if), Expect("separator", <<"(">>), Call("Condition"),
                  Expect("separator", <<")">>), Call("Statement"), Call("IfPrime")>>)

IfPrime ==
    /\ AtCall("IfPrime")
    /\ IF Cur.lexeme = L_else
       THEN Continue(prod(tokens, PS, "<IfPrime> -> else <Statement> endif"),
                     <<Expect("keyword", L_else), Call("Statement"),
                       Expect("keyword", L_endif)>>)
       ELSE Continue(prod(tokens, PS, "<IfPrime> -> endif"),
                     <<Expect("keyword", L_endif)>>)

Return ==
    /\ AtCall("Return")
    /\ Continue(prod(tokens, PS, "<Return> -> return <ReturnPrime>"),
                <<Expect("keyword", L_return), Call("Return_rest")>>)

\* Return after its keyword: if current().lexeme != ";"
Return_rest ==
    /\ AtCall("Return_rest")
    /\ IF Cur.lexeme # <<";">>
       THEN Continue(PS, <<Call("ReturnPrime")>>)
       ELSE Continue(prod(tokens, PS, "<ReturnPrime> -> ;"), <<Expect("separator", <<";">>)>>)

ReturnPrime ==
    /\ AtCall("ReturnPrime")
    /\ Continue(prod(tokens, PS, "<ReturnPrime> -> <Expression> ;"),
                <<Call("Expression"), Expect("separator", <<";">>)>>)

\* the procedure Print of the source
PrintStmt ==
    /\ AtCall("Print")
    /\ Continue(prod(tokens, PS, "<Print> -> print ( <Expression> ) ;"),
                <<Expect("keyword", L_print), Expect("separator", <<"(">>), Call("Expression"),
                  Expect("separator", <<")">>), Expect("separator", <<";">>)>>)

Scan ==
    /\ AtCall("Scan")
    /\ Continue(prod(tokens, PS, "<Scan> -> scan ( <IDs> ) ;"),
                <<Expect("keyword", L_scan), Expect("separator", <<"(">>), Call("IDs"),
                  Expect("separator", <<")">>), Expect("separator", <<";">>)>>)

While ==
    /\ AtCall("While")
    /\ Continue(prod(tokens, PS, "<While> -> while ( <Condition> ) <Statement> endwhile"),
                <<Expect("keyword", L_while), Expect("separator", <<"(">>), Call("Condition"),
                  Expect("separator", <<")">>), Call("Statement"),
                  Expect("keyword", L_endwhile)>>)

Condition ==
    /\ AtCall("Condition")
    /\ Continue(prod(tokens, PS, "<Condition> -> <Expression> <Relop> <Expression>"),
                <<Call("Expression"), Call("Relop"), Call("Expression")>>)

Relop ==
    /\ AtCall("Relop")
    /\ LET ps == prod(tokens, PS, "<Relop> -> == | != | > | < | <= | =>")
       IN  IF Cur.kind = "operator" /\ Cur.lexeme \in RelopLexemes
           THEN Continue(advance(tokens, ps), <<>>)
           ELSE Continue(error(tokens, ps, <<"relational operator expected">>), <<>>)

Expression ==
    /\ AtCall("Expression")
    /\ Continue(prod(tokens, PS, "<Expression> -> <Term> <ExpressionPrime>"),
                <<Call("Term"), Call("ExpressionPrime")>>)

ExpressionPrime ==
    /\ AtCall("ExpressionPrime")
    /\ IF Cur.kind = "operator" /\ Cur.lexeme \in {<<"+">>, <<"-">>}
       THEN Continue(advance(tokens,
                             prod(tokens, PS, "<ExpressionPrime> -> + <Term> <ExpressionPrime> | - <Term> <ExpressionPrime>")),
                     <<Call("Term"), Call("ExpressionPrime")>>)
       ELSE Continue(prod(tokens, PS, "<ExpressionPrime> -> epsilon"), <<>>)

Term ==
    /\ AtCall("Term")
    /\ Continue(prod(tokens, PS, "<Term> -> <Factor> <TermPrime>"),
                <<Call("Factor"), Call("TermPrime")>>)

TermPrime ==
    /\ AtCall("TermPrime")
    /\ IF Cur.kind = "operator" /\ Cur.lexeme \in {<<"*">>, <<"/">>}
       THEN Continue(advance(tokens,
                             prod(tokens, PS, "<TermPrime> -> * <Factor> <TermPrime> | / <Factor> <TermPrime>")),
                     <<Call("Factor"), Call("TermPrime")>>)
       ELSE Continue(prod(tokens, PS, "<TermPrime> -> epsilon"), <<>>)

Factor ==
    /\ AtCall("Factor")
    /\ IF Cur.lexeme = <<"-">>
       THEN Continue(advance(tokens, prod(tokens, PS, "<Factor> -> - <Primary>")),
                     <<Call("Primary")>>)
       ELSE Continue(prod(tokens, PS, "<Factor> -> <Primary>"), <<Call("Primary")>>)

\* tokens[pos+1] can be read: the index is inside the list
LookaheadInRange(toks, p) == p + 1 < Len(toks)

\* the variant that reads tokens[pos+1] before it looks at the current token
Primary_EagerLookahead ==
    /\ AtCall("Primary")
    /\ IF ~LookaheadInRange(tokens, pos)
       THEN Raise
       ELSE IF Cur.kind = "identifier"
            THEN Continue(prod(tokens, PS, "<Primary> -> IDENTIFIER"),
                          <<Expect("identifier", NoLexeme)>>)
            ELSE Continue(error(tokens, PS, <<"invalid primary">>), <<>>)

Primary ==
    /\ AtCall("Primary")
    /\ IF Cur.kind = "identifier"
       THEN IF ~LookaheadInRange(tokens, pos)
            THEN Raise
            ELSE IF tokens[pos + 2].lexeme = <<"(">>
                 THEN Continue(prod(tokens, PS, "<Primary> -> IDENTIFIER ( <IDs> )"),
                               <<Expect("identifier", NoLexeme), Expect("separator", <<"(">>),
                                 Call("IDs"), Expect("separator", <<")">>)>>)
                 ELSE Continue(prod(tokens, PS, "<Primary> -> IDENTIFIER"),
                               <<Expect("identifier", NoLexeme)>>)
       ELSE IF Cur.kind \in {"integer", "real"}
       THEN Continue(advance(tokens,
                             prod(tokens, PS, IF Cur.kind = "integer"
                                              THEN "<Primary> -> INTEGER"
                                              ELSE "<Primary> -> REAL")),
                     <<>>)
       ELSE IF Cur.kind = "keyword" /\ Cur.lexeme \in {L_true, L_false}
       THEN Continue(advance(tokens, prod(tokens, PS, "<Primary> -> true | false")), <<>>)
       ELSE IF Cur.kind = "separator" /\ Cur.lexeme = <<"(">>
       THEN Continue(prod(tokens, PS, "<Primary> -> ( <Expression> )"),
                     <<Expect("separator", <<"(">>), Call("Expression"),
                       Expect("separator", <<")">>)>>)
       ELSE Continue(error(tokens, PS, <<"invalid primary">>), <<>>)

--------------------------------------------------------------------------
(* Source texts given to parse *)

\* the words joined by single spaces
RECURSIVE Join(_)
Join(words) ==
    IF words = <<>> THEN <<>>
    ELSE IF Len(words) = 1 THEN words[1]
    ELSE LET h == Len(words) \div 2
         IN  Join(SubSeq(words, 1, h)) \o <<" ">> \o Join(SubSeq(words, h + 1, Len(words)))

\* the words the exhaustively enumerated programs are made of
SmallVocab == { L_dd, <<"a">>, <<"=">>, <<";">>, <<"(">>, <<"{">>, <<"+">> }

WordSeqs == UNION {[1..n -> SmallVocab] : n \in 0..MaxWords}

\* the three '$$' that open the statement section
Header == <<L_dd, L_dd, L_dd>>

\* statements that end with ';'
SemiStatements ==
    { << <<"a">>, <<"=">>, <<"b">>, <<";">> >>,
      << <<"a">>, <<"=">>, <<"b">>, <<"+">>, <<"1">>, <<";">> >>,
      << L_return, <<"a">>, <<";">> >>,
      << L_print, <<"(">>, <<"a">>, <<")">>, <<";">> >>,
      << L_scan, <<"(">>, <<"a">>, <<")">>, <<";">> >> }

\* well-formed statements
Statements ==
    SemiStatements \cup
    { << L_return, <<";">> >>,
      << <<"c">>, <<"=">>, <<"d">>, <<";">> >>,
      << <<"{">>, <<"c">>, <<"=">>, <<"d">>, <<";">>, <<"}">> >>,
      << L_if, <<"(">>, <<"a">>, <<"<">>, <<"1">>, <<")">>, <<"c">>, <<"=">>, <<"d">>, <<";">>, L_endif >>,
      << L_while, <<"(">>, <<"a">>, <<"=","=">>, <<"1">>, <<")">>, <<"c">>, <<"=">>, <<"d">>, <<";">>, L_endwhile >> }

DropLast(s) == SubSeq(s, 1, Len(s) - 1)

\* programs of two statements, the first of them without its ';'
MissingSemicolonPrograms ==
    { Join(Header \o DropLast(s1) \o s2 \o <<L_dd>>) : s1 \in SemiStatements, s2 \in Statements }

\* programs of two well-formed statements
TwoStatementPrograms ==
    { Join(Header \o s1 \o s2 \o <<L_dd>>) : s1 \in Statements, s2 \in Statements }

\* "$$ $$ $$ $$"
MinimalProgram == Join(<<L_dd, L_dd, L_dd, L_dd>>)

\* well-formed programs that between them use every rule of the grammar
GrammarPrograms ==
    { Join(<< L_dd,
              L_function, <<"f">>, <<"(">>, <<"a">>, <<",">>, <<"b">>, L_integer, <<",">>,
                  <<"c">>, L_real, <<",">>, <<"d">>, L_boolean, <<")">>,
                  L_integer, <<"x">>, <<";">>,
                  <<"{">>, L_return, <<"a">>, <<";">>, <<"}">>,
              L_function, <<"g">>, <<"(">>, <<")">>, <<"{">>, <<"}">>,
              L_dd, L_dd, L_dd >>),
      Join(<< L_dd, L_dd,
              L_integer, <<"x">>, <<",">>, <<"y">>, <<",">>, <<"z">>, <<";">>,
              L_boolean, <<"t">>, <<";">>,
              L_dd,
              <<"x">>, <<"=">>, <<"f">>, <<"(">>, <<"x">>, <<",">>, <<"y">>, <<")">>, <<"+">>,
                  <<"1">>, <<"*">>, <<"(">>, <<"2",".","5">>, <<"-">>, <<"-">>, <<"y">>, <<")">>,
                  <<"/">>, L_true, <<";">>,
              L_dd >>),
      Join(Header \o
           << L_if, <<"(">>, <<"x">>, <<"<","=">>, <<"1">>, <<")">>,
                  L_print, <<"(">>, <<"x">>, <<")">>, <<";">>,
                  L_else, L_scan, <<"(">>, <<"x">>, <<",">>, <<"y">>, <<")">>, <<";">>, L_endif,
              L_while, <<"(">>, <<"x">>, <<"!","=">>, L_false, <<")">>,
                  <<"{">>, L_return, <<";">>, <<"}">>, L_endwhile,
              L_dd >>) }

\* programs with one defect each
DefectPrograms ==
    { Join(<< L_dd, L_function, <<"f">>, <<"(">>, <<"a">>, <<")">>, <<"{">>, <<"}">>, L_dd, L_dd, L_dd >>),
      Join(Header \o << L_if, <<"(">>, <<"a">>, <<"b">>, <<")">>, <<"c">>, <<"=">>, <<"d">>, <<";">>, L_endif, L_dd >>),
      Join(Header \o << L_else, L_dd >>),
      Join(Header \o << <<"a">>, <<"=">>, <<";">>, L_dd >>),
      Join(Header \o << <<"a">>, <<"=">>, <<"@">>, <<";">>, L_dd >>),
      Join(Header \o << <<"a">>, <<"=">>, <<"b">> >>),
      Join(Header \o << <<"a">>, <<"=">>, <<"b">>, <<";">>, L_dd >>) \o <<" ","[","*"," ","x">> }

\* "$$ $$ $$ a = b + c ; $$"
AssignProgramWords ==
    Header \o << <<"a">>, <<"=">>, <<"b">>, <<"+">>, <<"c">>, <<";">>, L_dd >>

\* that program with the illegal character '@' put in front of its k-th
\* word or after its last word, or in the place of its k-th word
IllegalCharacterPrograms ==
    LET w == AssignProgramWords
        n == Len(w)
    IN  {Join(SubSeq(w, 1, k) \o << <<"@">> >> \o SubSeq(w, k + 1, n)) : k \in 0..n}
            \cup {Join(SubSeq(w, 1, k - 1) \o << <<"@">> >> \o SubSeq(w, k + 1, n)) : k \in 1..n}

\* that program cut off after its k-th word
TruncatedPrograms ==
    {Join(SubSeq(AssignProgramWords, 1, k)) : k \in 0..Len(AssignProgramWords)}

\* "$$ $$ $$", "a =" and "b" on three lines, and a fourth line that is empty
MultiLineProgram ==
    Join(Header) \o <<"\n">> \o Join(<< <<"a">>, <<"=">> >>) \o <<"\n", "b", "\n">>

\* well-formed programs with their keywords in lower case:
\* "$$ $$ integer x ; $$ if ( x < 1 ) x = 1 ; endif $$" and "$$ $$ $$ x = true ; $$"
LowerCaseKeywordPrograms ==
    { Join(<< L_dd, L_dd, L_integer, <<"x">>, <<";">>, L_dd,
              L_if, <<"(">>, <<"x">>, <<"<">>, <<"1">>, <<")">>,
                  <<"x">>, <<"=">>, <<"1">>, <<";">>, L_endif,
              L_dd >>),
      Join(Header \o << <<"x">>, <<"=">>, L_true, <<";">>, L_dd >>) }

\* the same programs with keywords in another letter case:
\* "$$ $$ Integer x ; $$ IF ( x < 1 ) x = 1 ; ENDIF $$" and "$$ $$ $$ x = TRUE ; $$"
OtherCaseKeywordPrograms ==
    { Join(<< L_dd, L_dd, <<"I","n","t","e","g","e","r">>, <<"x">>, <<";">>, L_dd,
              <<"I","F">>, <<"(">>, <<"x">>, <<"<">>, <<"1">>, <<")">>,
                  <<"x">>, <<"=">>, <<"1">>, <<";">>, <<"E","N","D","I","F">>,
              L_dd >>),
      Join(Header \o << <<"x">>, <<"=">>, <<"T","R","U","E">>, <<";">>, L_dd >>) }

Programs ==
    {Join(w) : w \in WordSeqs}
        \cup {Join(Header \o w) : w \in WordSeqs}
        \cup MissingSemicolonPrograms \cup TwoStatementPrograms
        \cup {MinimalProgram} \cup GrammarPrograms \cup DefectPrograms
        \cup IllegalCharacterPrograms \cup TruncatedPrograms \cup {MultiLineProgram}
        \cup LowerCaseKeywordPrograms \cup OtherCaseKeywordPrograms

--------------------------------------------------------------------------
(* parser.parse as a program: SpecParse *)

\* the programs a later call of parse in the same process is given
RepeatPrograms ==
    { <<>>, MinimalProgram, Join(Header \o << <<"a">>, <<"=">>, <<";">>, L_dd >>) }

\* the module's globals after import
InitParse ==
    /\ text = <<>>
    /\ i = 0
    /\ current_line = 1
    /\ tokens = <<>>
    /\ pc = "idle"
    /\ pos = 0
    /\ error_count = 0
    /\ trace = <<>>
    /\ stack = <<>>

\* parse without the reset of error_count
Parse_NoReset ==
    /\ pc \in {"idle", "done"}
    /\ \E src \in (IF pc = "idle" THEN Programs ELSE RepeatPrograms) :
          /\ text' = src
          /\ tokens' = tokenize(src)
    /\ pos' = 0
    /\ error_count' = error_count
    /\ trace' = << TraceLine("header", "", <<>>, 0, <<"Token Lexeme">>),
                   TraceLine("header", "", <<>>, 0, <<"-----------------------------------">>) >>
    /\ stack' = <<Call("Rat25S")>>
    /\ pc' = "parse"
    /\ UNCHANGED <<i, current_line>>

\* parse(src_text), up to its call of Rat25S
Parse ==
    /\ pc \in {"idle", "done"}
    /\ \E src \in (IF pc = "idle" THEN Programs ELSE RepeatPrograms) :
          /\ text' = src
          /\ tokens' = tokenize(src)
    /\ pos' = 0
    /\ error_count' = 0
    /\ trace' = << TraceLine("header", "", <<>>, 0, <<"Token Lexeme">>),
                   TraceLine("header", "", <<>>, 0, <<"-----------------------------------">>) >>
    /\ stack' = <<Call("Rat25S")>>
    /\ pc' = "parse"
    /\ UNCHANGED <<i, current_line>>

\* Rat25S has returned: parse flushes the file, reports and returns
ParseReturn ==
    /\ pc = "parse"
    /\ stack = <<>>
    /\ pc' = "done"
    /\ UNCHANGED <<text, i, current_line, tokens, parseVars>>

NextParse ==
    \/ Parse \/ ParseReturn \/ ExpectCall
    \/ Rat25S \/ Rat25S_rest
    \/ OptFunctionDefinitions \/ FunctionDefinitions \/ FunctionDefinitionsPrime \/ Function
    \/ OptParameterList \/ ParameterList \/ ParameterListPrime \/ ParameterListPrime_more
    \/ Parameter \/ Qualifier \/ Body
    \/ OptDeclarationList \/ DeclarationList \/ DeclarationListPrime \/ Declaration
    \/ IDs \/ IDsPrime \/ IDsPrime_more
    \/ StatementList \/ StatementListPrime \/ Statement
    \/ Compound \/ Assign \/ If \/ IfPrime \/ Return \/ Return_rest \/ ReturnPrime
    \/ PrintStmt \/ Scan \/ While \/ Condition \/ Relop
    \/ Expression \/ ExpressionPrime \/ Term \/ TermPrime \/ Factor \/ Primary

SpecParse == InitParse /\ [][NextParse]_vars

\* the interpreter runs the code to its end: no step that can be taken is put off for ever
FairSpecParse == SpecParse /\ WF_vars(NextParse)

--------------------------------------------------------------------------
(* Properties of the tokenizer *)

\* kind and lexeme of each token
KindsAndLexemes(toks) == [k \in 1..Len(toks) |-> <<toks[k].kind, toks[k].lexeme>>]

\* the token appended by the step
Appended == tokens'[Len(tokens')]

\* the step is an iteration of tokenize's loop that lexes a token whose
\* first character is at index s
LexesTokenAt(s) ==
    /\ pc = "loop"
    /\ i < Len(text)
    /\ skip_ws_and_comments(text, i).tok = NoToken
    /\ s = skip_ws_and_comments(text, i).idx
    /\ s < Len(text)

\* C1: when tokenize returns, the last token is eof, and no token before the
\* last is ever eof (whatever the text: empty, blank, ending inside a comment)
C1_SoleEofLast ==
    /\ \A k \in 1..Len(tokens) : tokens[k].kind = "eof" => (pc = "done" /\ k = Len(tokens))
    /\ pc = "done" => (Len(tokens) >= 1 /\ tokens[Len(tokens)].kind = "eof")

\* tokenize has returned for a text of white space only
C1_Witness ==
    /\ pc = "done"
    /\ text = <<" ", "\n">>
    /\ tokens = <<Token("eof", <<>>, 2)>>

\* C6: a token lexed by tokenize is stamped with the line of its first
\* character (1 + the newlines before it), and eof with the line of the end
C6_LineOfFirstCharacter ==
    [][ /\ \A s \in 0..Len(text) :
              LexesTokenAt(s) => Appended.line_number = 1 + Newlines(text, 0, s)
        /\ (pc = "post" /\ Len(tokens') = Len(tokens) + 1)
              => Appended.line_number = 1 + Newlines(text, 0, Len(text))
      ]_vars

\* the two-character operators
C8_Operators ==
    { <<"<","=">>, <<">","=">>, <<"=","=">>, <<"<",">">>, <<"!","=">>, <<"=",">">> }

\* C8: a token that starts with a two-character lexeme is that lexeme, and a
\* '$' not followed by '$' is the separator '$'
C8_MaximalMunch ==
    [][ \A s \in 0..Len(text) :
          LexesTokenAt(s) =>
            /\ \A lit \in C8_Operators :
                  startswith(text, lit, s) =>
                     /\ tokens' = Append(tokens, Token("operator", lit, Appended.line_number))
                     /\ i' = s + 2
            /\ startswith(text, <<"$","$">>, s) =>
                     /\ tokens' = Append(tokens, Token("separator", <<"$","$">>, Appended.line_number))
                     /\ i' = s + 2
            /\ (At(text, s) = "$" /\ ~startswith(text, <<"$","$">>, s)) =>
                     /\ tokens' = Append(tokens, Token("separator", <<"$">>, Appended.line_number))
                     /\ i' = s + 1
      ]_vars

\* "$$$" has been tokenized as '$$' then '$'
C8_Witness ==
    /\ pc = "done"
    /\ text = <<"$","$","$">>
    /\ KindsAndLexemes(tokens) =
          << <<"separator", <<"$","$">> >>, <<"separator", <<"$">> >>, <<"eof", <<>> >> >>

\* the end of the maximal run of digits that starts at s
DigitRunEnd(src, s) ==
    CHOOSE e \in s..Len(src) :
        /\ \A j \in s..(e - 1) : isdigit(At(src, j))
        /\ e = Len(src) \/ ~isdigit(At(src, e))

\* C9: a token that starts with a digit is the digit run, with '.' and the
\* next digit run when a digit follows the '.', as real; else the digit run
\* alone as integer; and a token that starts with '.' is unknown
C9_NumberRecognizer ==
    [][ \A s \in 0..Len(text) :
          LexesTokenAt(s) =>
            /\ isdigit(At(text, s)) =>
                  LET d == DigitRunEnd(text, s)
                      fraction == /\ d + 1 < Len(text)
                                  /\ At(text, d) = "."
                                  /\ isdigit(At(text, d + 1))
                      e == IF fraction THEN DigitRunEnd(text, d + 1) ELSE d
                  IN  /\ tokens' = Append(tokens,
                                          Token(IF fraction THEN "real" ELSE "integer",
                                                Slice(text, s, e), Appended.line_number))
                      /\ i' = e
            /\ At(text, s) = "." =>
                  /\ Len(tokens') = Len(tokens) + 1
                  /\ Appended.kind = "unknown"
                  /\ Appended.lexeme[1] = "."
      ]_vars

\* "1.2.3" has been tokenized as real 1.2, unknown '.', integer 3
C9_Witness ==
    /\ pc = "done"
    /\ text = <<"1",".","2",".","3">>
    /\ KindsAndLexemes(tokens) =
          << <<"real", <<"1",".","2">> >>, <<"unknown", <<".">> >>,
             <<"integer", <<"3">> >>, <<"eof", <<>> >> >>

\* the first index at or after k where lit occurs in src, or -1
RECURSIVE FindFrom(_, _, _)
FindFrom(src, lit, k) ==
    IF k + Len(lit) > Len(src) THEN -1
    ELSE IF startswith(src, lit, k) THEN k
    ELSE FindFrom(src, lit, k + 1)

\* the index of the opener of the comment that is never closed, or -1:
\* comments are taken in order, each closed by the first "*]" after its opener
RECURSIVE UnclosedOpener(_, _)
UnclosedOpener(src, k) ==
    LET p == FindFrom(src, <<"[","*">>, k)
        q == FindFrom(src, <<"*","]">>, p + 2)
    IN  IF p = -1 THEN -1
        ELSE IF q = -1 THEN p
        ELSE UnclosedOpener(src, q + 2)

\* C10: for a text with an unclosed comment, tokenize returns the tokens of
\* the text before the opener, one unknown "unterminated comment", and eof
C10_UnterminatedComment ==
    (pc = "done" /\ UnclosedOpener(text, 0) # -1) =>
        LET before == tokenize(Slice(text, 0, UnclosedOpener(text, 0)))
        IN  KindsAndLexemes(tokens) =
                KindsAndLexemes(SubSeq(before, 1, Len(before) - 1))
                    \o << <<"unknown", UnterminatedComment>>, <<"eof", <<>> >> >>

\* tokenize has returned for "a [* c *]\nb\n[*\nx": two identifiers, the
\* error token, eof
C10_Witness ==
    /\ pc = "done"
    /\ text = <<"a"," ","[","*"," ","c"," ","*","]","\n","b","\n","[","*","\n","x">>
    /\ KindsAndLexemes(tokens) =
          << <<"identifier", <<"a">> >>, <<"identifier", <<"b">> >>,
             <<"unknown", UnterminatedComment>>, <<"eof", <<>> >> >>

\* the step is an iteration of tokenize's loop in which the skipper reports
\* an unterminated comment
AppendsUnterminatedComment ==
    /\ pc = "loop"
    /\ i < Len(text)
    /\ skip_ws_and_comments(text, i).tok # NoToken

\* C11: the unknown token of an unterminated comment is stamped with the line
\* of the end of the input, 1 + the number of newlines of the whole text
C11_EndLineStamp ==
    [][ AppendsUnterminatedComment =>
            Appended.line_number = 1 + Newlines(text, 0, Len(text)) ]_vars

\* src[k] is an illegal character: not white space, a letter, a digit, the
\* start of "[*", the start of a two-character operator or separator, or a
\* one-character operator or separator
IllegalAt(src, k) ==
    /\ ~isspace(At(src, k))
    /\ ~isalpha(At(src, k))
    /\ ~isdigit(At(src, k))
    /\ ~startswith(src, <<"[","*">>, k)
    /\ \A lit \in C8_Operators \cup { <<"$","$">> } : ~startswith(src, lit, k)
    /\ At(src, k) \notin {"=", "+", "-", "*", "/", "<", ">"}
    /\ At(src, k) \notin {"(", ")", "{", "}", ";", ",", "$"}

\* the end of the maximal run of illegal characters that starts at s
IllegalRunEnd(src, s) ==
    CHOOSE e \in s..Len(src) :
        /\ \A j \in s..(e - 1) : IllegalAt(src, j)
        /\ e = Len(src) \/ ~IllegalAt(src, e)

\* C12: a token that starts with an illegal character is one unknown token,
\* whose lexeme is the whole run of illegal characters up to the first
\* character that is not illegal (or the end); a token that starts with any
\* other character is not unknown
C12_IllegalGrouping ==
    [][ \A s \in 0..Len(text) :
          LexesTokenAt(s) =>
            /\ IllegalAt(text, s) =>
                  LET e == IllegalRunEnd(text, s)
                  IN  /\ e > s
                      /\ tokens' = Append(tokens,
                                          Token("unknown", Slice(text, s, e),
                                                Appended.line_number))
                      /\ i' = e
            /\ ~IllegalAt(text, s) => Appended.kind # "unknown"
      ]_vars

\* "@@@" has been tokenized as one unknown token, and ".]1" as the unknown
\* token '.]' followed by an integer
C12_Witness ==
    /\ pc = "done"
    /\ \/ /\ text = <<"@","@","@">>
          /\ KindsAndLexemes(tokens) = << <<"unknown", <<"@","@","@">> >>, <<"eof", <<>> >> >>
       \/ /\ text = <<".","]","1">>
          /\ KindsAndLexemes(tokens) =
                << <<"unknown", <<".","]">> >>, <<"integer", <<"1">> >>, <<"eof", <<>> >> >>

\* the reserved words
ReservedWords ==
    { L_integer, L_real, L_boolean, L_function, L_if, L_else, L_endif, L_while,
      L_endwhile, L_return, L_scan, L_print, L_true, L_false }

\* src[k] is a letter, a digit or an underscore
IdentifierCharAt(src, k) == isalpha(At(src, k)) \/ isdigit(At(src, k)) \/ At(src, k) = "_"

\* the end of the maximal run of letters, digits and underscores that starts at s
IdentifierRunEnd(src, s) ==
    CHOOSE e \in s..Len(src) :
        /\ \A j \in s..(e - 1) : IdentifierCharAt(src, j)
        /\ e = Len(src) \/ ~IdentifierCharAt(src, e)

\* C13: a token that starts with a letter is the maximal run of letters,
\* digits and underscores, of kind keyword exactly when its lower-cased form
\* is a reserved word and identifier otherwise; so "IF", "If" and "if" are a
\* keyword each, "ifx" and "if_1" an identifier each
C13_IdentifierKeyword ==
    [][ /\ \A s \in 0..Len(text) :
              (LexesTokenAt(s) /\ isalpha(At(text, s))) =>
                  LET e == IdentifierRunEnd(text, s)
                      lex == Slice(text, s, e)
                  IN  /\ tokens' = Append(tokens,
                                          Token(IF lower(lex) \in ReservedWords
                                                THEN "keyword" ELSE "identifier",
                                                lex, Appended.line_number))
                      /\ i' = e
        /\ (text \in { <<"I","F">>, <<"I","f">>, <<"i","f">> } /\ pc = "loop" /\ i = 0) =>
              tokens' = <<Token("keyword", text, 1)>>
        /\ (text \in { <<"i","f","x">>, <<"i","f","_","1">> } /\ pc = "loop" /\ i = 0) =>
              tokens' = <<Token("identifier", text, 1)>>
      ]_vars

\* "IF" has been tokenized as one keyword that keeps its case
C13_Witness ==
    /\ pc = "done"
    /\ text = <<"I","F">>
    /\ KindsAndLexemes(tokens) = << <<"keyword", <<"I","F">> >>, <<"eof", <<>> >> >>

\* C14: tokenize is deterministic: whichever matching literal the iteration
\* of a table finds first, an iteration of the loop has one outcome, and the
\* list returned for a text is the same in every run
C14_Deterministic ==
    [][ /\ (pc = "loop" /\ i < Len(text)) =>
              \A r \in lex_token_results(text, skip_ws_and_comments(text, i).idx) :
                  TokenizeIterWith(text, LexState(i, current_line, tokens, pc), r)
                      = LexState(i', current_line', tokens', pc')
        /\ pc' = "done" => tokens' = tokenize(text)
      ]_vars

\* "<=>" has been tokenized: at its start only '<=' of the table matches
C14_Witness ==
    /\ pc = "done"
    /\ text = <<"<","=",">">>
    /\ TableMatches(MULTI_CHAR_OPERATORS, text, 0) = { <<"<","=">> }
    /\ KindsAndLexemes(tokens) =
          << <<"operator", <<"<","=">> >>, <<"operator", <<">">> >>, <<"eof", <<>> >> >>

\* src[k:] is white space and closed comments only
RECURSIVE IsSkippedRegion(_, _)
IsSkippedRegion(src, k) ==
    IF k >= Len(src) THEN TRUE
    ELSE IF isspace(At(src, k)) THEN IsSkippedRegion(src, k + 1)
    ELSE /\ startswith(src, <<"[","*">>, k)
         /\ FindFrom(src, <<"*","]">>, k + 2) # -1
         /\ IsSkippedRegion(src, FindFrom(src, <<"*","]">>, k + 2) + 2)

\* C15: an iteration of the loop consumes text[i:i'], the ranges of successive
\* iterations follow one another from 0 to the end of the text, and a range
\* is a region of white space and closed comments followed by either nothing
\* (at the end of the text), or a token whose lexeme is exactly the rest of
\* the range, or a comment that is never closed
C15_InputCoverage ==
    [][ /\ (pc = "loop" /\ i < Len(text)) =>
              /\ i <= i' /\ i' <= Len(text)
              /\ \/ /\ tokens' = tokens
                    /\ i' = Len(text)
                    /\ IsSkippedRegion(Slice(text, i, i'), 0)
                 \/ /\ Len(tokens') = Len(tokens) + 1
                    /\ SubSeq(tokens', 1, Len(tokens)) = tokens
                    /\ Appended.kind # "eof"
                    /\ IF Appended.kind = "unknown" /\ Appended.lexeme = UnterminatedComment
                       THEN /\ i' = Len(text)
                            /\ LET region == Slice(text, i, i')
                                   opener == UnclosedOpener(region, 0)
                               IN  /\ opener # -1
                                   /\ IsSkippedRegion(Slice(region, 0, opener), 0)
                       ELSE LET s == i' - Len(Appended.lexeme)
                            IN  /\ i <= s /\ s < i'
                                /\ Appended.lexeme = Slice(text, s, i')
                                /\ IsSkippedRegion(Slice(text, i, s), 0)
        /\ pc = "loop" => i <= Len(text)
        /\ pc = "post" => (i = Len(text) /\ i' = i)
      ]_vars

\* "a [* c *]\nb\n[*\nx" has been consumed to its end: two tokens, the
\* regions skipped before them, and the unclosed comment
C15_Witness ==
    /\ pc = "done"
    /\ text = <<"a"," ","[","*"," ","c"," ","*","]","\n","b","\n","[","*","\n","x">>
    /\ i = Len(text)
    /\ Len(tokens) = 4

\* C18: lex_token called at any index of the text returns either eof or a
\* greater index; every iteration of the loop of tokenize increases the scan
\* index; and tokenize returns
C18_ForwardProgress ==
    /\ [][ /\ \A k \in 0..Len(text) :
                 \A r \in lex_token_results(text, k) :
                     r.tok.kind # "eof" => r.idx > k
           /\ (pc = "loop" /\ i < Len(text)) => i' > i
         ]_vars
    /\ <>(pc = "done")

\* tokenize has returned for the single illegal character '!', which alone
\* starts no operator
C18_Witness ==
    /\ pc = "done"
    /\ text = <<"!">>
    /\ i = 1
    /\ KindsAndLexemes(tokens) = << <<"unknown", <<"!">> >>, <<"eof", <<>> >> >>

\* the first index at or after k that holds no white space
RECURSIVE FirstNonSpace(_, _)
FirstNonSpace(src, k) ==
    IF k < Len(src) /\ isspace(At(src, k)) THEN FirstNonSpace(src, k + 1) ELSE k

\* C19: when an iteration of the loop meets the opener "[*" after white
\* space: if "*]" occurs at or after the character that follows the opener,
\* the comment ends at the first such occurrence (whatever "[*" it holds),
\* and the iteration goes on with the rest of the text, appending nothing
\* when the rest is white space and closed comments; if "*]" does not occur
\* there, as in "[*]", the comment is unterminated
C19_CommentSkipper ==
    [][ (pc = "loop" /\ i < Len(text)
            /\ startswith(text, <<"[","*">>, FirstNonSpace(text, i))) =>
            LET close == FindFrom(text, <<"*","]">>, FirstNonSpace(text, i) + 2)
                rest == Slice(text, close + 2, Len(text))
            IN  IF close = -1
                THEN /\ Len(tokens') = Len(tokens) + 1
                     /\ SubSeq(tokens', 1, Len(tokens)) = tokens
                     /\ Appended.kind = "unknown"
                     /\ Appended.lexeme = UnterminatedComment
                     /\ i' = Len(text)
                ELSE IF IsSkippedRegion(rest, 0)
                THEN /\ tokens' = tokens
                     /\ i' = Len(text)
                ELSE /\ Len(tokens') = Len(tokens) + 1
                     /\ <<Appended.kind, Appended.lexeme>> = KindsAndLexemes(tokenize(rest))[1]
                     /\ i' > close + 2
      ]_vars

\* "[*]" has been tokenized as an unterminated comment
C19_Witness ==
    /\ pc = "done"
    /\ text = <<"[","*","]">>
    /\ KindsAndLexemes(tokens) = << <<"unknown", UnterminatedComment>>, <<"eof", <<>> >> >>

--------------------------------------------------------------------------
(* Properties of the parser *)

\* the rules traced by Statement
StatementRules ==
    { "<Statement> -> <Compound>", "<Statement> -> <Assign>", "<Statement> -> <If>",
      "<Statement> -> <While>", "<Statement> -> <Return>", "<Statement> -> <Print>",
      "<Statement> -> <Scan>" }

\* the number of statements Statement has dispatched
StatementsTraced ==
    Cardinality({k \in 1..Len(trace) :
                    trace[k].type = "prod" /\ trace[k].note[1] \in StatementRules})

\* C2: for a program of two statements whose first lacks its ';', the run
\* ends with the cursor at or after eof, at least one diagnostic, and both
\* statements dispatched by Statement
C2_MissingSemicolonRecovery ==
    (pc = "done" /\ text \in MissingSemicolonPrograms) =>
        /\ pos >= Len(tokens) - 1
        /\ error_count >= 1
        /\ StatementsTraced >= 2

\* the pending expect matches the current token
ExpectMatches ==
    /\ Cur.kind = Head(stack).kind
    /\ Head(stack).lexeme = NoLexeme \/ Cur.lexeme = Head(stack).lexeme

\* the procedure about to run is one of Qualifier, Statement, Relop, Primary
\* and the current token is none of its alternatives
DirectMismatch ==
    \/ /\ Head(stack) = Call("Qualifier")
       /\ Cur.lexeme \notin {L_integer, L_boolean, L_real}
    \/ /\ Head(stack) = Call("Statement")
       /\ ~(Cur.kind = "separator" /\ Cur.lexeme = <<"{">>)
       /\ Cur.kind # "identifier"
       /\ ~(Cur.kind = "keyword" /\ Cur.lexeme \in {L_if, L_while, L_return, L_print, L_scan})
    \/ /\ Head(stack) = Call("Relop")
       /\ ~(Cur.kind = "operator"
            /\ Cur.lexeme \in { <<"=","=">>, <<"!","=">>, <<"<">>, <<">">>, <<"<","=">>, <<"=",">">> })
    \/ /\ Head(stack) = Call("Primary")
       /\ Cur.kind \notin {"identifier", "integer", "real"}
       /\ ~(Cur.kind = "keyword" /\ Cur.lexeme \in {L_true, L_false})
       /\ ~(Cur.kind = "separator" /\ Cur.lexeme = <<"(">>)

\* C3: a mismatch (in expect, or found by Qualifier, Statement, Relop,
\* Primary) adds 1 to error_count and 1 to pos and the caller goes on with its
\* next symbol; a matching expect adds 1 to pos and leaves error_count
C3_SingleTokenSkip ==
    [][ (pc = "parse" /\ stack # <<>>) =>
          /\ (Head(stack).op = "expect" /\ ExpectMatches) =>
                /\ pos' = pos + 1
                /\ error_count' = error_count
                /\ stack' = Tail(stack)
          /\ (Head(stack).op = "expect" /\ ~ExpectMatches) =>
                /\ pos' = pos + 1
                /\ error_count' = error_count + 1
                /\ stack' = Tail(stack)
          /\ DirectMismatch =>
                /\ pos' = pos + 1
                /\ error_count' = error_count + 1
                /\ stack' = Tail(stack)
      ]_vars

\* in "$$ $$ $$ a = ; $$" Primary has rejected ';' and the expect of ';' has
\* rejected '$$'
C3_Witness ==
    /\ pc = "parse"
    /\ text = Join(Header \o << <<"a">>, <<"=">>, <<";">>, L_dd >>)
    /\ error_count = 2
    /\ pos = 7
    /\ trace[Len(trace) - 1].type = "error"
    /\ trace[Len(trace) - 1].note = <<"expected", "separator", <<";">> >>

C5_CursorBounded ==
    [][ pc = "parse" => (pos' >= pos /\ 0 <= pos' /\ pos' <= Len(tokens')) ]_vars

\* C7: the parse of "$$ $$ $$ $$" ends with no diagnostic
C7_MinimalProgram ==
    (pc = "done" /\ text = MinimalProgram) => error_count = 0

\* the parse of "$$ $$ $$ $$" has returned, every token consumed
C7_Witness ==
    /\ pc = "done"
    /\ text = MinimalProgram
    /\ Len(tokens) = 5
    /\ pos = 5

\* the diagnostics of the run of parse on each text a process parses again
RepeatErrorCount(src) ==
    IF src = <<>> THEN 4
    ELSE IF src = MinimalProgram THEN 0
    ELSE 3

\* C16: a call of parse starts its run with pos = 0 and error_count = 0,
\* whatever the runs before it left behind, and the error_count at the end of
\* a run is a function of the run's text alone: the same for the first run of
\* a process and for a run that follows others
C16_ResetEachRun ==
    [][ /\ (pc # "parse" /\ pc' = "parse") => (pos' = 0 /\ error_count' = 0)
        /\ (pc' = "done" /\ text' \in RepeatPrograms) => error_count' = RepeatErrorCount(text')
      ]_vars

\* parse is called again after a run that ended with diagnostics and with
\* the cursor past the end
C16_Witness ==
    /\ pc = "done"
    /\ error_count >= 2
    /\ pos > 0
    /\ ENABLED Parse

\* the token sequence holds an unknown token
HasUnknownToken == \E k \in 1..Len(tokens) : tokens[k].kind = "unknown"

\* C17: the cursor moves past an unknown token only in error(), which counts
\* a diagnostic (no expect and no guarded advance matches it), and a run on a
\* token sequence that holds an unknown token ends with error_count >= 1
C17_UnknownNeverAccepted ==
    [][ /\ (pc = "parse" /\ Cur.kind = "unknown" /\ pos' # pos) =>
              /\ pos' = pos + 1
              /\ error_count' = error_count + 1
              /\ trace'[Len(trace')] = TraceLine("terminal", "unknown", Cur.lexeme, Cur.line_number, <<>>)
              /\ trace'[Len(trace') - 1].type = "error"
        /\ (pc = "parse" /\ pc' = "done" /\ HasUnknownToken) => error_count >= 1
      ]_vars

\* the run on "$$ $$ $$ a @ b + c ; $$" has returned: '@' stood where '='
\* is required and was rejected
C17_Witness ==
    /\ pc = "done"
    /\ text = Join(Header \o << <<"a">>, <<"@">>, <<"b">>, <<"+">>, <<"c">>, <<";">>, L_dd >>)
    /\ tokens[5].kind = "unknown"
    /\ error_count >= 1
    /\ \E k \in 1..Len(trace) :
          /\ trace[k].type = "error"
          /\ trace[k].kind = "unknown"
          /\ trace[k].note = <<"expected", "operator", <<"=">> >>

\* the synthetic eof token of current()
SyntheticEof ==
    Token("eof", <<>>, IF tokens = <<>> THEN 1 ELSE tokens[Len(tokens)].line_number)

\* C20: no run raises; Primary reads tokens[pos+1] (when the current token
\* is an identifier) only with pos + 1 < len(tokens); and with the cursor at
\* or past the end, the current token is an eof token with the line of the
\* last element of the list, and a procedure that looks at it without
\* rejecting it leaves pos as it is
C20_ReadPastEnd ==
    [][ /\ pc' # "exception"
        /\ (AtCall("Primary") /\ Cur.kind = "identifier") => pos + 1 < Len(tokens)
        /\ (pc = "parse" /\ pos >= Len(tokens)) =>
              /\ Cur = SyntheticEof
              /\ (stack # <<>> /\ Head(stack).op = "call" /\ ~DirectMismatch) => pos' = pos
      ]_vars

\* in the run on the program of three lines that ends with "= b", Primary
\* has read the last element of the list as its lookahead, and the cursor is
\* now past the end, where the current token is eof of line 4
C20_Witness ==
    /\ pc = "parse"
    /\ text = MultiLineProgram
    /\ pos >= Len(tokens)
    /\ Cur = Token("eof", <<>>, 4)
    /\ \E k \in 1..Len(trace) :
          trace[k].type = "prod" /\ trace[k].note = <<"<Primary> -> IDENTIFIER">>

\* the terminal lines of the trace, in order
TerminalLines(tr) ==
    LET IsTerminal(l) == l.type = "terminal"
        sel == SelectSeq(tr, IsTerminal)
    IN  [k \in 1..Len(sel) |-> <<sel[k].kind, sel[k].lexeme, sel[k].line>>]

\* the tokens toks[0], ..., toks[k-1] that are not eof, in order
NonEofTokens(toks, k) ==
    LET NotEof(t) == t.kind # "eof"
        sel == SelectSeq(SubSeq(toks, 1, IF k > Len(toks) THEN Len(toks) ELSE k), NotEof)
    IN  [j \in 1..Len(sel) |-> <<sel[j].kind, sel[j].lexeme, sel[j].line_number>>]

\* C21: a run that ends with error_count = 0 has consumed every token: the
\* cursor equals len(tokens), the token consumed last was the eof element,
\* no diagnostic was written, and every token before eof was logged as a
\* terminal
C21_SuccessConsumesAll ==
    [][ (pc = "parse" /\ pc' = "done" /\ error_count = 0) =>
            /\ pos = Len(tokens)
            /\ tokens[pos].kind = "eof"
            /\ \A k \in 1..Len(trace) : trace[k].type # "error"
            /\ TerminalLines(trace) = NonEofTokens(tokens, Len(tokens))
      ]_vars

\* the run on the program with declarations and an assignment has returned
\* without a diagnostic
C21_Witness ==
    /\ pc = "done"
    /\ error_count = 0
    /\ Len(tokens) > 30
    /\ pos = Len(tokens)
    /\ \E k \in 1..Len(trace) :
          trace[k].type = "prod" /\ trace[k].note = <<"<Primary> -> IDENTIFIER ( <IDs> )">>

\* C22: at every point of a run the terminal lines of the trace are, in
\* order, the tokens before the cursor that are not eof, each once; no
\* terminal line shows eof; and a diagnostic line is followed at once by the
\* terminal line of the token it names, unless that token is eof, in which
\* case no terminal line follows it
C22_TraceOrdering ==
    (pc \in {"parse", "done"}) =>
        /\ TerminalLines(trace) = NonEofTokens(tokens, pos)
        /\ \A k \in 1..Len(trace) :
              /\ trace[k].type = "terminal" => trace[k].kind # "eof"
              /\ trace[k].type = "error" =>
                    IF trace[k].kind = "eof"
                    THEN k = Len(trace) \/ trace[k + 1].type # "terminal"
                    ELSE /\ k < Len(trace)
                         /\ trace[k + 1] = TraceLine("terminal", trace[k].kind, trace[k].lexeme,
                                                     trace[k].line, <<>>)

\* the run on "$$ $$ $$ a = ; $$" has returned: ';' was discarded and
\* logged, eof was discarded twice and not logged, and the cursor is past
\* the end
C22_Witness ==
    /\ pc = "done"
    /\ text = Join(Header \o << <<"a">>, <<"=">>, <<";">>, L_dd >>)
    /\ pos > Len(tokens)
    /\ trace[Len(trace)].type = "error"
    /\ trace[Len(trace)].kind = "eof"
    /\ \E k \in 1..(Len(trace) - 1) :
          /\ trace[k].type = "error"
          /\ trace[k].lexeme = <<";">>
          /\ trace[k + 1].type = "terminal"
          /\ trace[k + 1].lexeme = <<";">>

\* C23: the run on a program whose keywords are written in another letter
\* case ends with the error_count of the run on the program with the
\* keywords in lower case: none, for the well-formed programs
\* "$$ $$ integer x ; $$ if ( x < 1 ) x = 1 ; endif $$" and
\* "$$ $$ $$ x = true ; $$" (the tokenizer gives both forms the same kinds)
C23_KeywordCaseAgreement ==
    (pc = "done" /\ lower(text) \in LowerCaseKeywordPrograms) =>
        /\ [k \in 1..Len(tokens) |-> tokens[k].kind]
              = [k \in 1..Len(tokens) |-> tokenize(lower(text))[k].kind]
        /\ error_count = 0

==========================================================================
